---- MODULE Spec2Model ----
(***************************************************************************)
(* Model of streamlit_app.py: the Spotify virality analyzer.  One script   *)
(* run (run_analysis) is a sequence of steps over a DataFrame df read from *)
(* the uploaded CSV file; the user may upload the downloaded cleaned file  *)
(* again, which runs the script anew on it.                                *)
(***************************************************************************)
EXTENDS Integers, Sequences, FiniteSets, TLC

VARIABLES
    uploaded_file,                 \* the CSV file held by st.file_uploader
    pc,                            \* position of the script run
    df,                            \* the DataFrame of run_analysis
    initial_rows,                  \* local of run_analysis
    initial_rows_after_duplicates, \* local of run_analysis
    top_genres,                    \* local of run_analysis
    out,                           \* what the page shows, in order
    error,                         \* the uncaught exception of the run, if any
    download,                      \* data of st.download_button, if offered
    loads,                         \* number of pd.read_csv calls of this run
    parsed,                        \* df as pd.read_csv returned it
    reuploaded,                    \* the uploaded file is the previous download
    prev_cleaned                   \* cleaned rows of the run that produced it

vars == <<uploaded_file, pc, df, initial_rows, initial_rows_after_duplicates,
          top_genres, out, error, download, loads, parsed, reuploaded,
          prev_cleaned>>

-----------------------------------------------------------------------------
(* Bounds of the explored inputs *)

MaxRows == 2
\* rows of the files explored under the fairness specification
MaxRowsFair == 1

-----------------------------------------------------------------------------
(* Cell values of a DataFrame: NaN, a string, a number or a Python bool *)

NaN == [t |-> "nan", s |-> "", n |-> 0]
Str(x) == [t |-> "str", s |-> x, n |-> 0]
Num(k) == [t |-> "num", s |-> "", n |-> k]
Bool(b) == [t |-> "bool", s |-> "", n |-> IF b THEN 1 ELSE 0]

RECURSIVE SelectSeqIdx(_, _, _)
\* indices i >= from of sequence s (in order) for which keep[i] holds
SelectSeqIdx(keep, from, to) ==
    IF from > to THEN <<>>
    ELSE (IF keep[from] THEN <<from>> ELSE <<>>) \o SelectSeqIdx(keep, from + 1, to)

Range(s) == {s[i] : i \in DOMAIN s}

Contains(s, x) == \E i \in DOMAIN s : s[i] = x

-----------------------------------------------------------------------------
(* Files.  A CSV file is a header and rows of text fields; ragged marks a   *)
(* file with a line holding more fields than its header.                    *)

None == [some |-> FALSE, header |-> <<>>, rows |-> <<>>, ragged |-> FALSE]
File(h, r, g) == [some |-> TRUE, header |-> h, rows |-> r, ragged |-> g]

\* decimal literals of the integers the explored files hold
IntLit == ("0" :> 0) @@ ("1" :> 1) @@ ("2" :> 2) @@ ("79" :> 79) @@ ("80" :> 80)
\* the same numbers as to_csv writes them from a float64 column
FloatLit == ("0.0" :> 0) @@ ("1.0" :> 1) @@ ("2.0" :> 2) @@ ("79.0" :> 79)
            @@ ("80.0" :> 80)
TrueLit == {"True", "TRUE", "true"}
FalseLit == {"False", "FALSE", "false"}
NaLit == {""}

IntStr(k) == CHOOSE t \in DOMAIN IntLit : IntLit[t] = k
FloatStr(k) == CHOOSE t \in DOMAIN FloatLit : FloatLit[t] = k

\* type inference of pd.read_csv for one column, from its fields:
\* int64, float64, bool, then object; a bool column holding NA values is an
\* object column of Python bools and NaN ("object_bool")
ColumnKind(toks) ==
    LET vals == {toks[i] : i \in DOMAIN toks} \ NaLit
        hasNa == \E i \in DOMAIN toks : toks[i] \in NaLit
    IN  IF Len(toks) = 0 THEN "object"
        ELSE IF vals \subseteq DOMAIN IntLit
             THEN (IF hasNa THEN "float64" ELSE "int64")
        ELSE IF vals \subseteq (DOMAIN IntLit \cup DOMAIN FloatLit) THEN "float64"
        ELSE IF vals \subseteq (TrueLit \cup FalseLit)
             THEN (IF hasNa THEN "object_bool" ELSE "bool")
        ELSE "object"

DtypeOf(kind) == IF kind = "object_bool" THEN "object" ELSE kind

Convert(kind, tok) ==
    IF tok \in NaLit THEN NaN
    ELSE IF kind \in {"int64", "float64"}
         THEN Num(IF tok \in DOMAIN IntLit THEN IntLit[tok] ELSE FloatLit[tok])
    ELSE IF kind \in {"bool", "object_bool"} THEN Bool(tok \in TrueLit)
    ELSE Str(tok)

NoDf == [columns |-> <<>>, dtypes |-> <<>>, rows |-> <<>>]

\* a reader that skips ragged lines instead of raising
ReadCsvRaises_skip_bad_lines(f) == Len(f.header) = 0

\* pd.read_csv raises on a file with no columns or with a ragged line
ReadCsvRaises(f) == Len(f.header) = 0 \/ f.ragged

read_csv(f) ==
    LET cols == Range(f.header)
        kind == [c \in cols |-> ColumnKind([i \in 1..Len(f.rows) |-> f.rows[i][c]])]
    IN  [columns |-> f.header,
         dtypes |-> [c \in cols |-> DtypeOf(kind[c])],
         rows |-> [i \in 1..Len(f.rows) |->
                     [idx |-> i - 1,
                      cells |-> [c \in cols |-> Convert(kind[c], f.rows[i][c])]]]]

Format(dtype, v) ==
    IF v.t = "nan" THEN ""
    ELSE IF v.t = "str" THEN v.s
    ELSE IF v.t = "bool" THEN (IF v.n = 1 THEN "True" ELSE "False")
    ELSE IF dtype = "float64" THEN FloatStr(v.n)
    ELSE IntStr(v.n)

\* df.to_csv(csv_buffer, index=False)
to_csv(d) ==
    File(d.columns,
         [i \in 1..Len(d.rows) |->
            [c \in Range(d.columns) |-> Format(d.dtypes[c], d.rows[i].cells[c])]],
         FALSE)

-----------------------------------------------------------------------------
(* The cleaning steps of run_analysis, as functions of the DataFrame *)

important_cols == <<"Popularity", "Energy", "Danceability", "Positiveness",
                    "Speechiness", "Liveness", "Acousticness",
                    "Instrumentalness", "Tempo", "Loudness (db)">>

features == <<"Energy", "Danceability", "Positiveness", "Speechiness",
              "Liveness", "Acousticness", "Instrumentalness", "Tempo",
              "Loudness (db)">>

ViralThreshold == 80
HeadCount == 10

KeepRows(d, keep) ==
    LET kept == SelectSeqIdx(keep, 1, Len(d.rows))
    IN  [d EXCEPT !.rows = [k \in 1..Len(kept) |-> d.rows[kept[k]]]]

\* df.drop_duplicates(inplace=True): keep the first of the rows equal in
\* every column (the index is not compared, NaN equals NaN)
drop_duplicates(d) ==
    KeepRows(d, [i \in 1..Len(d.rows) |->
                   \A j \in 1..(i - 1) : d.rows[j].cells # d.rows[i].cells])

\* the columns of subset that df lacks: df.dropna raises KeyError on them
MissingColumns(d, subset) ==
    SelectSeq(subset, LAMBDA c : ~Contains(d.columns, c))

\* dropna looking at the first column of subset only
dropna_first_column(d, subset) ==
    KeepRows(d, [i \in 1..Len(d.rows) |-> d.rows[i].cells[subset[1]] # NaN])

\* df.dropna(subset=important_cols, inplace=True)
dropna(d, subset) ==
    KeepRows(d, [i \in 1..Len(d.rows) |->
                   \A k \in DOMAIN subset : d.rows[i].cells[subset[k]] # NaN])

ExplicitMap == ("Yes" :> 1) @@ ("No" :> 0) @@ ("True" :> 1) @@ ("False" :> 0)

\* a map that ignores the case of the value
MapValue_ignore_case(v) ==
    IF v.t = "str" /\ v.s \in {"Yes", "yes", "True", "true"} THEN Num(1)
    ELSE IF v.t = "str" /\ v.s \in {"No", "no", "False", "false"} THEN Num(0)
    ELSE NaN

\* Series.map(dict): a value that is no key of the dict becomes NaN
MapValue(v) ==
    IF v.t = "str" /\ v.s \in DOMAIN ExplicitMap THEN Num(ExplicitMap[v.s]) ELSE NaN

fillna(v, k) == IF v = NaN THEN Num(k) ELSE v

\* df['Explicit'] = df['Explicit'].map({...}).fillna(0)
MapExplicit(d) ==
    LET mapped == [i \in 1..Len(d.rows) |-> MapValue(d.rows[i].cells["Explicit"])]
        dtype == IF \E i \in DOMAIN mapped : mapped[i] = NaN
                 THEN "float64" ELSE "int64"
    IN  [d EXCEPT !.dtypes["Explicit"] = dtype,
                  !.rows = [i \in 1..Len(d.rows) |->
                              [d.rows[i] EXCEPT !.cells["Explicit"] =
                                                   fillna(mapped[i], 0)]]]

\* the label with a strict comparison
ViralOf_strict(x) == IF x.t = "num" /\ x.n > ViralThreshold THEN 1 ELSE 0

\* lambda x: 1 if x >= 80 else 0  (a comparison with NaN is False)
ViralOf(x) == IF x.t = "num" /\ x.n >= ViralThreshold THEN 1 ELSE 0

\* df['Viral'] = df['Popularity'].apply(...)
AddViral(d) ==
    LET cols == Range(d.columns) \cup {"Viral"}
    IN  [columns |-> IF Contains(d.columns, "Viral") THEN d.columns
                     ELSE Append(d.columns, "Viral"),
         dtypes |-> [c \in cols |-> IF c = "Viral" THEN "int64" ELSE d.dtypes[c]],
         rows |-> [i \in 1..Len(d.rows) |->
                     [idx |-> d.rows[i].idx,
                      cells |-> [c \in cols |->
                                   IF c = "Viral"
                                   THEN Num(ViralOf(d.rows[i].cells["Popularity"]))
                                   ELSE d.rows[i].cells[c]]]]]

\* Series.value_counts(): the non-missing values with their counts, most
\* frequent first, equal counts in order of first appearance
value_counts(vals) ==
    LET first == SelectSeqIdx([i \in 1..Len(vals) |->
                                 vals[i] # NaN
                                 /\ \A j \in 1..(i - 1) : vals[j] # vals[i]],
                              1, Len(vals))
        n == Len(first)
        cnt(k) == Cardinality({i \in 1..Len(vals) : vals[i] = vals[first[k]]})
        rank(k) == 1 + Cardinality({j \in 1..n :
                                      cnt(j) > cnt(k) \/ (cnt(j) = cnt(k) /\ j < k)})
    IN  [p \in 1..n |->
           LET k == CHOOSE k \in 1..n : rank(k) = p
           IN  [g |-> vals[first[k]].s, c |-> cnt(k)]]

head(s, k) == SubSeq(s, 1, IF Len(s) < k THEN Len(s) ELSE k)

\* df[df['Viral'] == 1]['Genre'].value_counts().head(10)
TopGenres(d) ==
    LET viral == SelectSeqIdx([i \in 1..Len(d.rows) |->
                                 d.rows[i].cells["Viral"] = Num(1)],
                              1, Len(d.rows))
    IN  head(value_counts([k \in 1..Len(viral) |-> d.rows[viral[k]].cells["Genre"]]),
             HeadCount)

\* the rows of a DataFrame without their index
Cells(d) == [i \in 1..Len(d.rows) |-> d.rows[i].cells]

-----------------------------------------------------------------------------
(* The files a user may upload *)

AllColumns == important_cols \o <<"Explicit", "Genre">>

Headers ==
    {SelectSeq(AllColumns, LAMBDA c : c \notin absent) :
        absent \in SUBSET {"Popularity", "Explicit", "Genre"}}

PopularityFields == {"79", "80"}
ExplicitFields == {"Yes", "No", "True", "False", "yes", "", "2"}
GenreFields == {"Pop", ""}

Complete(p) == [c \in Range(important_cols) |-> IF c = "Popularity" THEN p ELSE "1"]

\* the required fields of a row: complete, or one field missing
RequiredFields ==
    {Complete(p) : p \in PopularityFields}
    \cup {Complete(""), [Complete("80") EXCEPT !["Loudness (db)"] = ""]}

RowsOf(h) ==
    {[c \in Range(h) |-> IF c = "Explicit" THEN e
                         ELSE IF c = "Genre" THEN g ELSE r[c]] :
        r \in RequiredFields, e \in ExplicitFields, g \in GenreFields}

EmptyFile == File(<<>>, <<>>, FALSE)
RaggedFile == File(<<"Popularity">>, <<[c \in {"Popularity"} |-> "80"]>>, TRUE)

UnreadableFiles == {EmptyFile, RaggedFile}

-----------------------------------------------------------------------------
(* The script *)

Msg(k, n) == [k |-> k, n |-> n]
NoError == [type |-> "", columns |-> <<>>]
KeyError(cols) == [type |-> "KeyError", columns |-> cols]

Init ==
    /\ uploaded_file = None
    /\ pc = "idle"
    /\ df = NoDf
    /\ initial_rows = 0
    /\ initial_rows_after_duplicates = 0
    /\ top_genres = <<>>
    /\ out = <<Msg("please_upload", 0)>>
    /\ error = NoError
    /\ download = None
    /\ loads = 0
    /\ parsed = NoDf
    /\ reuploaded = FALSE
    /\ prev_cleaned = <<>>

\* a new run of the script on file f
StartRun(f) ==
    /\ uploaded_file' = f
    /\ pc' = "load"
    /\ df' = NoDf
    /\ initial_rows' = 0
    /\ initial_rows_after_duplicates' = 0
    /\ top_genres' = <<>>
    /\ out' = <<>>
    /\ error' = NoError
    /\ download' = None
    /\ loads' = 0
    /\ parsed' = NoDf

\* the user uploads a file of at most n rows, or an unreadable one
UploadOf(n) ==
    /\ pc = "idle"
    /\ \/ \E h \in Headers : \E k \in 0..n : \E rs \in [1..k -> RowsOf(h)] :
            StartRun(File(h, rs, FALSE))
       \/ \E f \in UnreadableFiles : StartRun(f)
    /\ reuploaded' = FALSE
    /\ prev_cleaned' = <<>>

Upload == UploadOf(MaxRows)

UploadShort == UploadOf(MaxRowsFair)

\* the user uploads the cleaned file downloaded from the finished run
Reupload ==
    /\ pc = "done"
    /\ download.some
    /\ StartRun(download)
    /\ reuploaded' = TRUE
    /\ prev_cleaned' = Cells(df)

\* df = pd.read_csv(uploaded_file), in the try block
Load ==
    /\ pc = "load"
    /\ uploaded_file.some
    /\ loads' = loads + 1
    /\ IF ReadCsvRaises(uploaded_file)
       THEN /\ out' = Append(out, Msg("error_loading_file", 0))
            /\ pc' = "returned"
            /\ UNCHANGED <<df, parsed>>
       ELSE /\ df' = read_csv(uploaded_file)
            /\ parsed' = df'
            /\ out' = Append(out, Msg("cleaning_summary", 0))
            /\ pc' = "drop_duplicates"
    /\ UNCHANGED <<uploaded_file, initial_rows, initial_rows_after_duplicates,
                   top_genres, error, download, reuploaded, prev_cleaned>>

DropDuplicates ==
    /\ pc = "drop_duplicates"
    /\ initial_rows' = Len(df.rows)
    /\ df' = drop_duplicates(df)
    /\ out' = Append(out, Msg("dropped_duplicates", initial_rows' - Len(df'.rows)))
    /\ pc' = "dropna"
    /\ UNCHANGED <<uploaded_file, initial_rows_after_duplicates, top_genres,
                   error, download, loads, parsed, reuploaded, prev_cleaned>>

\* the removal of incomplete rows counted from the original row count
DropMissing_from_original ==
    /\ pc = "dropna"
    /\ initial_rows_after_duplicates' = initial_rows
    /\ IF MissingColumns(df, important_cols) # <<>>
       THEN /\ error' = KeyError(MissingColumns(df, important_cols))
            /\ pc' = "crashed"
            /\ UNCHANGED <<df, out>>
       ELSE /\ df' = dropna(df, important_cols)
            /\ out' = Append(out, Msg("dropped_missing",
                                      initial_rows_after_duplicates' - Len(df'.rows)))
            /\ pc' = "explicit"
            /\ error' = error
    /\ UNCHANGED <<uploaded_file, initial_rows, top_genres, download, loads,
                   parsed, reuploaded, prev_cleaned>>

DropMissing ==
    /\ pc = "dropna"
    /\ initial_rows_after_duplicates' = Len(df.rows)
    /\ IF MissingColumns(df, important_cols) # <<>>
       THEN /\ error' = KeyError(MissingColumns(df, important_cols))
            /\ pc' = "crashed"
            /\ UNCHANGED <<df, out>>
       ELSE /\ df' = dropna(df, important_cols)
            /\ out' = Append(out, Msg("dropped_missing",
                                      initial_rows_after_duplicates' - Len(df'.rows)))
            /\ pc' = "explicit"
            /\ error' = error
    /\ UNCHANGED <<uploaded_file, initial_rows, top_genres, download, loads,
                   parsed, reuploaded, prev_cleaned>>

NormalizeExplicit ==
    /\ pc = "explicit"
    /\ IF Contains(df.columns, "Explicit") /\ df.dtypes["Explicit"] = "object"
       THEN /\ df' = MapExplicit(df)
            /\ out' = Append(out, Msg("explicit_converted", 0))
       ELSE IF Contains(df.columns, "Explicit")
       THEN /\ out' = Append(out, Msg("explicit_already_numeric", 0))
            /\ df' = df
       ELSE /\ out' = Append(out, Msg("explicit_not_found", 0))
            /\ df' = df
    /\ pc' = "viral"
    /\ UNCHANGED <<uploaded_file, initial_rows, initial_rows_after_duplicates,
                   top_genres, error, download, loads, parsed, reuploaded, prev_cleaned>>

CreateViral ==
    /\ pc = "viral"
    /\ IF ~Contains(df.columns, "Popularity")
       THEN /\ error' = KeyError(<<"Popularity">>)
            /\ pc' = "crashed"
            /\ UNCHANGED <<df, out>>
       ELSE /\ df' = AddViral(df)
            /\ out' = out \o <<Msg("viral_created", 0), Msg("cleaning_complete", 0),
                               Msg("cleaned_head", 0)>>
            /\ pc' = "distributions"
            /\ error' = error
    /\ UNCHANGED <<uploaded_file, initial_rows, initial_rows_after_duplicates,
                   top_genres, download, loads, parsed, reuploaded, prev_cleaned>>

\* the loop over features: one pair of density plots per feature
FeatureDistributions ==
    /\ pc = "distributions"
    /\ out' = out \o [k \in 1..Len(features) |-> Msg("distribution", k)]
    /\ pc' = "heatmap"
    /\ UNCHANGED <<uploaded_file, df, initial_rows, initial_rows_after_duplicates,
                   top_genres, error, download, loads, parsed, reuploaded, prev_cleaned>>

CorrelationHeatmap ==
    /\ pc = "heatmap"
    /\ out' = Append(out, Msg("heatmap", 0))
    /\ pc' = "genre"
    /\ UNCHANGED <<uploaded_file, df, initial_rows, initial_rows_after_duplicates,
                   top_genres, error, download, loads, parsed, reuploaded, prev_cleaned>>

\* the genre ranking without the test for the Genre column
GenreAnalysis_unguarded ==
    /\ pc = "genre"
    /\ IF Contains(df.columns, "Genre")
       THEN /\ top_genres' = TopGenres(df)
            /\ out' = Append(out, IF top_genres' # <<>>
                                  THEN Msg("top_genres", Len(top_genres'))
                                  ELSE Msg("no_viral_genres", 0))
            /\ pc' = "download"
            /\ error' = error
       ELSE /\ error' = KeyError(<<"Genre">>)
            /\ pc' = "crashed"
            /\ UNCHANGED <<out, top_genres>>
    /\ UNCHANGED <<uploaded_file, df, initial_rows, initial_rows_after_duplicates,
                   download, loads, parsed, reuploaded, prev_cleaned>>

GenreAnalysis ==
    /\ pc = "genre"
    /\ IF Contains(df.columns, "Genre")
       THEN /\ top_genres' = TopGenres(df)
            /\ out' = Append(out, IF top_genres' # <<>>
                                  THEN Msg("top_genres", Len(top_genres'))
                                  ELSE Msg("no_viral_genres", 0))
       ELSE /\ out' = Append(out, Msg("genre_not_found", 0))
            /\ top_genres' = top_genres
    /\ pc' = "download"
    /\ UNCHANGED <<uploaded_file, df, initial_rows, initial_rows_after_duplicates,
                   error, download, loads, parsed, reuploaded, prev_cleaned>>

Download ==
    /\ pc = "download"
    /\ download' = to_csv(df)
    /\ out' = out \o <<Msg("download_button", 0), Msg("analysis_complete", 0)>>
    /\ pc' = "done"
    /\ UNCHANGED <<uploaded_file, df, initial_rows, initial_rows_after_duplicates,
                   top_genres, error, loads, parsed, reuploaded,
                   prev_cleaned>>

\* the steps of one run of run_analysis
Run ==
    \/ Load
    \/ DropDuplicates
    \/ DropMissing
    \/ NormalizeExplicit
    \/ CreateViral
    \/ FeatureDistributions
    \/ CorrelationHeatmap
    \/ GenreAnalysis
    \/ Download

Next == Upload \/ Reupload \/ Run

Spec == Init /\ [][Next]_vars

NextFair == UploadShort \/ Reupload \/ Run

\* a started run executes to its end: the script is sequential
FairSpec == Init /\ [][NextFair]_vars /\ WF_vars(Run)

-----------------------------------------------------------------------------
(* Properties *)

\* the cleaning steps of the run are over: df is the cleaned Dataset
Cleaned == pc \in {"distributions", "heatmap", "genre", "download", "done"}

\* the DataFrame as pd.read_csv returned it for the uploaded file
Parsed == parsed

HasColumn(c) == Contains(uploaded_file.header, c)

HasRequiredColumns == \A k \in DOMAIN important_cols : HasColumn(important_cols[k])

IsComplete(cells) == \A k \in DOMAIN important_cols : cells[important_cols[k]] # NaN

\* the distinct rows of the parsed input
DistinctParsed == {Parsed.rows[i].cells : i \in 1..Len(Parsed.rows)}

\* C1: running the pipeline on the cleaned output of a first run yields the
\* same cleaned Dataset: same rows, same values, no further row removed.
C1_Idempotent ==
    (pc = "done" /\ reuploaded) => Cells(df) = prev_cleaned

\* C2: after the whole pipeline (Explicit normalized, Viral added) no two
\* surviving rows are equal in the values of all columns.
C2_NoDuplicateRows ==
    Cleaned => \A i, j \in 1..Len(df.rows) :
                   i # j => df.rows[i].cells # df.rows[j].cells

\* C3: every surviving row has a value in each of the ten required columns,
\* and every input row that is complete in the ten columns and equals no
\* earlier row survives.
C3_Complete ==
    Cleaned =>
        /\ \A i \in 1..Len(df.rows) :
              \A c \in {"Popularity", "Energy", "Danceability", "Positiveness",
                        "Speechiness", "Liveness", "Acousticness",
                        "Instrumentalness", "Tempo", "Loudness (db)"} :
                  df.rows[i].cells[c].t # "nan"
        /\ \A i \in 1..Len(Parsed.rows) :
              ( /\ IsComplete(Parsed.rows[i].cells)
                /\ \A j \in 1..(i - 1) : Parsed.rows[j].cells # Parsed.rows[i].cells )
              => \E k \in 1..Len(df.rows) : df.rows[k].idx = i - 1

\* a complete row survived, an incomplete row was removed
C3_Witness ==
    /\ pc = "done"
    /\ Len(df.rows) > 0
    /\ \E i \in 1..Len(Parsed.rows) :
          /\ Parsed.rows[i].cells["Loudness (db)"] = NaN
          /\ Parsed.rows[i].cells["Popularity"] # NaN
          /\ \A k \in 1..Len(df.rows) : df.rows[k].idx # i - 1

\* C4: Viral is present on every surviving row, 1 when the row's Popularity
\* is at least 80 and 0 otherwise (80 gives 1, 79 gives 0).
C4_Viral ==
    Cleaned =>
        /\ Contains(df.columns, "Viral")
        /\ \A i \in 1..Len(df.rows) :
              LET row == df.rows[i].cells
              IN  /\ row["Popularity"].t = "num"
                  /\ row["Viral"] = IF row["Popularity"].n >= 80 THEN Num(1) ELSE Num(0)

\* a row of Popularity 80 and a row of Popularity 79 both survived
C4_Witness ==
    /\ pc = "done"
    /\ \E i, j \in 1..Len(df.rows) :
          /\ df.rows[i].cells["Popularity"] = Num(80)
          /\ df.rows[i].cells["Viral"] = Num(1)
          /\ df.rows[j].cells["Popularity"] = Num(79)
          /\ df.rows[j].cells["Viral"] = Num(0)

\* the Explicit value read for the surviving row k of df
ParsedExplicit(k) == Parsed.rows[df.rows[k].idx + 1].cells["Explicit"]

IsTextual == HasColumn("Explicit") /\ Parsed.dtypes["Explicit"] = "object"

C6_ExplicitBinary ==
    (Cleaned /\ HasColumn("Explicit")) =>
        \A k \in 1..Len(df.rows) : df.rows[k].cells["Explicit"] \in {Num(0), Num(1)}

\* the report lines of the two removal steps
ReportedDuplicates == out[2]
ReportedMissing == out[3]

\* C7: removed_duplicates is the input's row count minus the count after
\* deduplication, removed_missing the count after deduplication minus the
\* count after dropping incomplete rows; the three add up to the input's
\* count and a row both duplicate and incomplete counts as a duplicate only.
C7_Report ==
    Cleaned =>
        /\ ReportedDuplicates =
              Msg("dropped_duplicates", Len(Parsed.rows) - Cardinality(DistinctParsed))
        /\ ReportedMissing =
              Msg("dropped_missing", Cardinality(DistinctParsed) - Len(df.rows))
        /\ ReportedMissing.n =
              Cardinality({c \in DistinctParsed : ~IsComplete(c)})
        /\ Len(Parsed.rows) = ReportedDuplicates.n + ReportedMissing.n + Len(df.rows)

\* the input held an incomplete row twice
C7_Witness ==
    /\ pc = "done"
    /\ ReportedDuplicates.n = 1
    /\ ReportedMissing.n = 1
    /\ \E i, j \in 1..Len(Parsed.rows) :
          /\ i < j
          /\ Parsed.rows[i].cells = Parsed.rows[j].cells
          /\ ~IsComplete(Parsed.rows[i].cells)

ReportLines == {"dropped_duplicates", "dropped_missing", "explicit_converted",
                "explicit_already_numeric", "explicit_not_found", "viral_created"}

\* C8: without a Popularity column the run fails with an error naming
\* Popularity, offers no export, and no line of the Cleaning Report reaches
\* the user.
C8_NoPartialReport ==
    (pc \notin {"idle", "load"} /\ ~ReadCsvRaises(uploaded_file)
     /\ ~HasColumn("Popularity")) =>
        \/ pc = "drop_duplicates"
        \/ pc = "dropna"
        \/ /\ pc = "crashed"
           /\ Contains(error.columns, "Popularity")
           /\ download = None
           /\ \A i \in 1..Len(out) : out[i].k \notin ReportLines

\* C9: a file that cannot be parsed gives the load error and nothing else:
\* no cleaning step runs, no report line, no export, one load attempt.
C9_LoadError ==
    (uploaded_file \in UnreadableFiles /\ pc # "load") =>
        /\ pc = "returned"
        /\ out = <<Msg("error_loading_file", 0)>>
        /\ df = NoDf
        /\ download = None
        /\ error = NoError
        /\ loads = 1

C9_Witness ==
    /\ pc = "returned"
    /\ uploaded_file = RaggedFile
    /\ out = <<Msg("error_loading_file", 0)>>

\* the lines of a finished run, in order
ExpectedLines ==
    <<"cleaning_summary", "dropped_duplicates", "dropped_missing",
      IF ~HasColumn("Explicit") THEN "explicit_not_found"
      ELSE IF Parsed.dtypes["Explicit"] = "object" THEN "explicit_converted"
      ELSE "explicit_already_numeric",
      "viral_created", "cleaning_complete", "cleaned_head">>
    \o [k \in 1..9 |-> "distribution"]
    \o <<"heatmap",
         IF ~HasColumn("Genre") THEN "genre_not_found"
         ELSE IF \E i \in 1..Len(df.rows) :
                    /\ df.rows[i].cells["Viral"] = Num(1)
                    /\ df.rows[i].cells["Genre"] # NaN
              THEN "top_genres" ELSE "no_viral_genres",
         "download_button", "analysis_complete">>

ValidUpload ==
    pc = "load" /\ ~ReadCsvRaises(uploaded_file) /\ HasRequiredColumns

Exported ==
    /\ pc = "done"
    /\ error = NoError
    /\ download = to_csv(df)
    /\ [i \in 1..Len(out) |-> out[i].k] = ExpectedLines

\* C10: a parsed input with the ten required columns goes through
\* deduplication, incomplete-row removal, Explicit handling, Viral and the
\* reporting in that order and ends with the export offered, with or without
\* the Explicit and Genre columns.
C10_Export ==
    /\ ValidUpload ~> Exported
    /\ [](pc = "done" => Exported)

\* a finished run on a file with neither Explicit nor Genre
C10_Witness ==
    /\ Exported
    /\ ~HasColumn("Explicit")
    /\ ~HasColumn("Genre")
    /\ Len(df.rows) > 0

====
